---- MODULE Spec2Model ----
(***************************************************************************)
(* Model of morning-read's Notion publisher (src/utils/notion.ts): the     *)
(* month/day page resolver of NotionService and its markdown-to-block      *)
(* converter.  JavaScript strings are sequences of one-character strings,  *)
(* so that split, trim, startsWith, includes and the two regular           *)
(* expressions are computed on characters as the code computes them.       *)
(***************************************************************************)
EXTENDS Integers, Sequences, FiniteSets, TLC

(***************************************************************************)
(* Bounds of the model.                                                    *)
(***************************************************************************)
MaxLines == 3

MaxCalls == 2

MaxInitChildren == 2
MaxChars == 6
MaxDays == 3

(***************************************************************************)
(* JavaScript string primitives.                                           *)
(***************************************************************************)
\* The characters String.prototype.trim removes (those the inputs use).
Whitespace == {" ", "\t", "\r"}

\* s.startsWith(pre)
StartsWith(s, pre) == Len(s) >= Len(pre) /\ SubSeq(s, 1, Len(pre)) = pre

\* s.includes(sub)
Includes(s, sub) == \E i \in 1..(Len(s) - Len(sub) + 1) : SubSeq(s, i, i + Len(sub) - 1) = sub

\* s.substring(n), n counted from 0 as in JavaScript
Substring(s, n) == SubSeq(s, n + 1, Len(s))

\* s.slice(1, -1)
SliceInner(s) == SubSeq(s, 2, Len(s) - 1)

\* s.trim()
Trim(s) ==
  LET keep == {i \in 1..Len(s) : s[i] \notin Whitespace}
  IN  IF keep = {} THEN <<>>
      ELSE SubSeq(s, CHOOSE i \in keep : \A j \in keep : i <= j,
                     CHOOSE i \in keep : \A j \in keep : i >= j)

\* The least position >= from at which sub occurs in s, 0 when there is none.
IndexFrom(s, sub, from) ==
  LET hits == {i \in from..(Len(s) - Len(sub) + 1) : SubSeq(s, i, i + Len(sub) - 1) = sub}
  IN  IF hits = {} THEN 0 ELSE CHOOSE i \in hits : \A j \in hits : i <= j

\* s.split(sep) for a non-empty separator string
RECURSIVE SplitOn(_, _)
SplitOn(s, sep) ==
  LET i == IndexFrom(s, sep, 1)
  IN  IF i = 0 THEN <<s>>
      ELSE <<SubSeq(s, 1, i - 1)>> \o SplitOn(SubSeq(s, i + Len(sep), Len(s)), sep)

\* lines.join("\n"), the inverse used to build inputs
RECURSIVE JoinLines(_)
JoinLines(ls) ==
  IF Len(ls) = 0 THEN <<>>
  ELSE IF Len(ls) = 1 THEN ls[1]
  ELSE ls[1] \o <<"\n">> \o JoinLines(Tail(ls))

(***************************************************************************)
(* Regular expressions of notion.ts.  "." matches any character but a line *)
(* terminator; ".*?" is non-greedy, so the leftmost match with the nearest *)
(* closing delimiters is the one taken.                                    *)
(***************************************************************************)
DotChar(c) == c \notin {"\n", "\r"}

AllDot(s, a, b) == \A x \in a..b : DotChar(s[x])

\* /\[.*?\]\(.*?\)/ anchored at position i: the position of the closing
\* parenthesis of the match, 0 when there is no match at i.
LinkEnd(s, i) ==
  IF i > Len(s) \/ s[i] # "[" THEN 0
  ELSE LET closes(j) == {k \in (j + 2)..Len(s) : s[k] = ")" /\ AllDot(s, j + 2, k - 1)}
           js == {j \in (i + 1)..(Len(s) - 1) :
                     /\ s[j] = "]" /\ s[j + 1] = "("
                     /\ AllDot(s, i + 1, j - 1)
                     /\ closes(j) # {}}
       IN  IF js = {} THEN 0
           ELSE LET j0 == CHOOSE j \in js : \A x \in js : j <= x
                IN  CHOOSE k \in closes(j0) : \A x \in closes(j0) : k <= x

\* content.split(/(\[.*?\]\(.*?\))/): the text between matches and, because of
\* the capture group, the matches themselves.
RECURSIVE SplitLinks(_)
SplitLinks(s) ==
  LET starts == {i \in 1..Len(s) : LinkEnd(s, i) # 0}
  IN  IF starts = {} THEN <<s>>
      ELSE LET i0 == CHOOSE i \in starts : \A x \in starts : i <= x
               k0 == LinkEnd(s, i0)
           IN  <<SubSeq(s, 1, i0 - 1), SubSeq(s, i0, k0)>>
                 \o SplitLinks(SubSeq(s, k0 + 1, Len(s)))

\* /@\(\[.*?\]\(.*?\)\)/ anchored at position i: the position of the last
\* character of the match, 0 when there is no match at i.
PlaceholderEnd(s, i) ==
  IF i + 2 > Len(s) \/ SubSeq(s, i, i + 2) # <<"@", "(", "[">> THEN 0
  ELSE LET closes(j) == {k \in (j + 2)..(Len(s) - 1) :
                            s[k] = ")" /\ s[k + 1] = ")" /\ AllDot(s, j + 2, k - 1)}
           js == {j \in (i + 3)..(Len(s) - 1) :
                     /\ s[j] = "]" /\ s[j + 1] = "("
                     /\ AllDot(s, i + 3, j - 1)
                     /\ closes(j) # {}}
       IN  IF js = {} THEN 0
           ELSE LET j0 == CHOOSE j \in js : \A x \in js : j <= x
                IN  (CHOOSE k \in closes(j0) : \A x \in closes(j0) : k <= x) + 1

\* content.replace(/@\(\[.*?\]\(.*?\)\)/g, "")
RECURSIVE StripPlaceholders(_)
StripPlaceholders(s) ==
  LET starts == {i \in 1..Len(s) : PlaceholderEnd(s, i) # 0}
  IN  IF starts = {} THEN s
      ELSE LET i0 == CHOOSE i \in starts : \A x \in starts : i <= x
           IN  SubSeq(s, 1, i0 - 1)
                 \o StripPlaceholders(SubSeq(s, PlaceholderEnd(s, i0) + 1, Len(s)))

(***************************************************************************)
(* Rich text and blocks.  A rich-text item is {type: "text", text:         *)
(* {content, link?: {url}}}: link is "none" when the item has no link,     *)
(* "url" when it has one and "undefined" when the url destructured from    *)
(* the split is undefined.  NullBlock is JavaScript's null.                *)
(***************************************************************************)
PlainText(c) == [content |-> c, link |-> "none", url |-> <<>>]

Link(c, u) == [content |-> c, link |-> "url", url |-> u]

NullBlock == [type |-> "null", rich_text |-> <<>>]

AISummarized == <<"A", "I", " ", "S", "u", "m", "m", "a", "r", "i", "z", "e", "d">>

\* The callback of parts.map in parseRichText.
parseRichTextPart(part) ==
  IF StartsWith(part, <<"[">>) /\ Includes(part, <<"]", "(">>)
  THEN LET sp == SplitOn(SliceInner(part), <<"]", "(">>)
       IN  IF Len(sp) >= 2 THEN Link(sp[1], sp[2])
           ELSE [content |-> sp[1], link |-> "undefined", url |-> <<>>]
  ELSE PlainText(part)

parseRichText(content) ==
  LET parts == SplitLinks(content)
  IN  [n \in 1..Len(parts) |-> parseRichTextPart(parts[n])]

createHeadingBlock(content, type) ==
  LET filteredContent == StripPlaceholders(content)
  IN  [type |-> type, rich_text |-> <<PlainText(Trim(filteredContent))>>]

\* createParagraphBlock removing the marker alone and keeping the rest.
createParagraphBlockStripMarker(content) ==
  LET i == IndexFrom(content, AISummarized, 1)
      filteredContent == IF i = 0 THEN content
                         ELSE SubSeq(content, 1, i - 1)
                                \o SubSeq(content, i + Len(AISummarized), Len(content))
  IN  IF filteredContent = <<>> THEN NullBlock
      ELSE [type |-> "paragraph", rich_text |-> parseRichText(filteredContent)]

createParagraphBlock(content) ==
  LET filteredContent == IF Includes(content, AISummarized) THEN <<>> ELSE content
  IN  IF filteredContent = <<>> THEN NullBlock
      ELSE [type |-> "paragraph", rich_text |-> parseRichText(filteredContent)]

createBulletedListItemBlock(content) ==
  [type |-> "bulleted_list_item", rich_text |-> parseRichText(content)]

(***************************************************************************)
(* convertContentToBlocks.  A conversion state is the loop's three locals. *)
(***************************************************************************)
\* ConvertStart with skipIntroduction initialised to false.
ConvertStartCollecting == [blocks |-> <<>>, currentParagraph |-> <<>>, skipIntroduction |-> FALSE]

ConvertStart == [blocks |-> <<>>, currentParagraph |-> <<>>, skipIntroduction |-> TRUE]

\* if (currentParagraph) { blocks.push(createParagraphBlock(..)); currentParagraph = "" }
PushParagraph(st) ==
  IF st.currentParagraph # <<>>
  THEN [st EXCEPT !.blocks = Append(@, createParagraphBlock(st.currentParagraph)),
                  !.currentParagraph = <<>>]
  ELSE st

PushBlock(st, b) == [st EXCEPT !.blocks = Append(@, b)]

\* ConvertLine with a separator line switching the introduction flag either
\* way.
ConvertLineToggle(st, line) ==
  IF Trim(line) = <<"-", "-", "-">>
  THEN [st EXCEPT !.skipIntroduction = ~st.skipIntroduction]
  ELSE IF st.skipIntroduction THEN st
  ELSE IF StartsWith(line, <<"#", " ">>)
       THEN PushBlock(PushParagraph(st), createHeadingBlock(Substring(line, 2), "heading_1"))
  ELSE IF StartsWith(line, <<"#", "#", " ">>)
       THEN PushBlock(PushParagraph(st), createHeadingBlock(Substring(line, 3), "heading_2"))
  ELSE IF StartsWith(line, <<"#", "#", "#", " ">>)
       THEN PushBlock(PushParagraph(st), createHeadingBlock(Substring(line, 4), "heading_3"))
  ELSE IF StartsWith(line, <<"-", " ">>)
       THEN PushBlock(PushParagraph(st), createBulletedListItemBlock(Substring(line, 2)))
  ELSE IF Trim(line) = <<>>
       THEN PushParagraph(st)
  ELSE [st EXCEPT !.currentParagraph = @ \o line]

\* ConvertLine with the pending paragraph flushed after the heading or
\* bullet is pushed instead of before.
ConvertLineFlushAfter(st, line) ==
  IF st.skipIntroduction
  THEN IF Trim(line) = <<"-", "-", "-">> THEN [st EXCEPT !.skipIntroduction = FALSE] ELSE st
  ELSE IF StartsWith(line, <<"#", " ">>)
       THEN PushParagraph(PushBlock(st, createHeadingBlock(Substring(line, 2), "heading_1")))
  ELSE IF StartsWith(line, <<"#", "#", " ">>)
       THEN PushParagraph(PushBlock(st, createHeadingBlock(Substring(line, 3), "heading_2")))
  ELSE IF StartsWith(line, <<"#", "#", "#", " ">>)
       THEN PushParagraph(PushBlock(st, createHeadingBlock(Substring(line, 4), "heading_3")))
  ELSE IF StartsWith(line, <<"-", " ">>)
       THEN PushParagraph(PushBlock(st, createBulletedListItemBlock(Substring(line, 2))))
  ELSE IF Trim(line) = <<>>
       THEN PushParagraph(st)
  ELSE [st EXCEPT !.currentParagraph = @ \o line]

\* One iteration of the for loop over the lines.
ConvertLine(st, line) ==
  IF st.skipIntroduction
  THEN IF Trim(line) = <<"-", "-", "-">> THEN [st EXCEPT !.skipIntroduction = FALSE] ELSE st
  ELSE IF StartsWith(line, <<"#", " ">>)
       THEN PushBlock(PushParagraph(st), createHeadingBlock(Substring(line, 2), "heading_1"))
  ELSE IF StartsWith(line, <<"#", "#", " ">>)
       THEN PushBlock(PushParagraph(st), createHeadingBlock(Substring(line, 3), "heading_2"))
  ELSE IF StartsWith(line, <<"#", "#", "#", " ">>)
       THEN PushBlock(PushParagraph(st), createHeadingBlock(Substring(line, 4), "heading_3"))
  ELSE IF StartsWith(line, <<"-", " ">>)
       THEN PushBlock(PushParagraph(st), createBulletedListItemBlock(Substring(line, 2)))
  ELSE IF Trim(line) = <<>>
       THEN PushParagraph(st)
  ELSE [st EXCEPT !.currentParagraph = @ \o line]

\* The statements after the loop: the last flush and the filter of nulls.
\* ConvertFinish returning the collected blocks without the null filter.
ConvertFinishUnfiltered(st) == PushParagraph(st).blocks

ConvertFinish(st) == SelectSeq(PushParagraph(st).blocks, LAMBDA b : b # NullBlock)

RECURSIVE ConvertLines(_, _)
ConvertLines(st, ls) ==
  IF ls = <<>> THEN st ELSE ConvertLines(ConvertLine(st, Head(ls)), Tail(ls))

convertContentToBlocks(content) ==
  ConvertFinish(ConvertLines(ConvertStart, SplitOn(content, <<"\n">>)))

(***************************************************************************)
(* The clock and the titles computed from it.                              *)
(***************************************************************************)
\* Date.prototype.toLocaleString(.., {month: "long"})
MonthNames ==
  << <<"J", "a", "n", "u", "a", "r", "y">>,
     <<"F", "e", "b", "r", "u", "a", "r", "y">>,
     <<"M", "a", "r", "c", "h">>,
     <<"A", "p", "r", "i", "l">>,
     <<"M", "a", "y">>,
     <<"J", "u", "n", "e">>,
     <<"J", "u", "l", "y">>,
     <<"A", "u", "g", "u", "s", "t">>,
     <<"S", "e", "p", "t", "e", "m", "b", "e", "r">>,
     <<"O", "c", "t", "o", "b", "e", "r">>,
     <<"N", "o", "v", "e", "m", "b", "e", "r">>,
     <<"D", "e", "c", "e", "m", "b", "e", "r">> >>

\* The dates the clock passes through, in order.
Dates ==
  << [year |-> 1, month |-> 3, day |-> 1],
     [year |-> 1, month |-> 3, day |-> 21],
     [year |-> 1, month |-> 4, day |-> 1] >>

Digit == <<"0", "1", "2", "3", "4", "5", "6", "7", "8", "9">>

\* Number to string, for the day of the month.
NumberToString(n) ==
  IF n < 10 THEN <<Digit[n + 1]>> ELSE <<Digit[(n \div 10) + 1], Digit[(n % 10) + 1]>>

\* A remainder that takes the sign of the divisor.
FlooredRem(a, b) == a % b

\* JavaScript's %: the remainder takes the sign of the dividend.
JsRem(a, b) == IF a >= 0 THEN a % b ELSE -((-a) % b)

OrdinalSuffixes == <<<<"t", "h">>, <<"s", "t">>, <<"n", "d">>, <<"r", "d">>>>

\* s[i] of the four-element array s: undefined (here <<>>) outside 0..3.
SuffixAt(i) == IF i \in 0..3 THEN OrdinalSuffixes[i + 1] ELSE <<>>

\* getOrdinalSuffix without the number: the suffix alone.
getOrdinalSuffixOnly(n) ==
  LET v == n % 100
      a == SuffixAt(JsRem(v - 20, 10))
      b == SuffixAt(v)
  IN  IF a # <<>> THEN a ELSE IF b # <<>> THEN b ELSE SuffixAt(0)

getOrdinalSuffix(n) ==
  LET v == n % 100
      a == SuffixAt(JsRem(v - 20, 10))
      b == SuffixAt(v)
  IN  NumberToString(n) \o (IF a # <<>> THEN a ELSE IF b # <<>> THEN b ELSE SuffixAt(0))

\* const title = `${month} ${getOrdinalSuffix(day)}`
DayTitle(date) == MonthNames[date.month] \o <<" ">> \o getOrdinalSuffix(date.day)

(***************************************************************************)
(* The document store and the calls in flight.                             *)
(***************************************************************************)
RootId == "75b22e80-f388-41e8-a02c-2a88d879df5b"

Procs == {1, 2}

\* Digest.content of the digest of each date of Dates: the caller hands
\* updateMorningBriefDb the digest of the day.
DailyDigest ==
  << <<"h", "i", "\n", "-", "-", "-", "\n", "#", " ", "T", "\n", "a", "b">>,
     <<"-", "-", "-", "\n", "A", "I", " ", "S", "u", "m", "m", "a", "r", "i", "z", "e", "d", "\n", "\n", "-", " ", "b", "\n", "c", "d">>,
     <<"n", "o", " ", "s", "e", "p", "a", "r", "a", "t", "o", "r">> >>

\* The blocks a root can hold before the first call.  by = 0 marks a block
\* no call of the model created.
ChildChoices ==
  { [type |-> "child_page", title |-> <<"M", "a", "r", "c", "h">>],
    [type |-> "child_page", title |-> <<"M", "a", "r", "c", "h", " ", "N", "o", "t", "e", "s">>],
    [type |-> "paragraph",  title |-> <<"M", "a", "r", "c", "h">>] }

VARIABLES
  rootChildren,   \* the child blocks of the root page, in listing order
  dayPages,       \* the pages created under month pages, in creation order
  nextId,         \* the store's next page id
  clock,          \* index into Dates: the current date
  pc,             \* per invocation: where updateMorningBriefDb stands
  local,          \* per invocation: its locals
  attempts,       \* per invocation: remote calls and conversions made so far
  nCalls,         \* invocations started
  nDone,          \* invocations that returned a day page
  content,        \* convertContentToBlocks: its argument
  lineNo,         \* convertContentToBlocks: lines consumed so far
  conv,           \* convertContentToBlocks: blocks, currentParagraph, skipIntroduction
  returned,       \* convertContentToBlocks: whether it has returned
  output,         \* convertContentToBlocks: the value returned
  ordDate,        \* createDayPage's title: the date it is computed for
  ordTitle,       \* createDayPage's title: the title computed, <<>> before
  parseLine,      \* parseRichText: its argument
  parseSpans,     \* parseRichText: the value returned, <<>> before
  now,            \* Command: the time of the latest tick, in milliseconds
  lastNotifyTime,     \* the store's lastNotifyTime, 0 when none is stored
  nextScheduledTime,  \* the store's nextScheduledTime, 0 when none is stored
  tick,           \* Command: what the latest tick did
  attempt         \* Command: the latest tick that took the publish branch

notionVars == <<rootChildren, dayPages, nextId, clock, pc, local, attempts, nCalls, nDone>>

convertVars == <<content, lineNo, conv, returned, output>>

pureVars == <<ordDate, ordTitle, parseLine, parseSpans>>

schedVars == <<now, lastNotifyTime, nextScheduledTime, tick, attempt>>

vars == <<notionVars, convertVars, pureVars, schedVars>>

TodaysDigest == DailyDigest[clock]

(***************************************************************************)
(* handlePageContext and createDayPage: the code between the awaits.       *)
(***************************************************************************)
\* NestedPages with the wrong discriminator: no block is of type "page".
NestedPagesWrongType(results) == SelectSeq(results, LAMBDA b : b.type = "page")

\* response.results.filter(block => "type" in block && block.type === "child_page")
NestedPages(results) == SelectSeq(results, LAMBDA b : b.type = "child_page")

\* CurrentMonth with {month: "short"}.
CurrentMonthShort(date) == SubSeq(MonthNames[date.month], 1, 3)

\* new Date().toLocaleString("default", {month: "long"})
CurrentMonth(date) == MonthNames[date.month]

\* FindMonthPage returning the last match instead of the first.
FindMonthPageLast(results, currentMonth) ==
  LET np == NestedPages(results)
      hits == {i \in 1..Len(np) : Includes(np[i].title, currentMonth)}
  IN  IF hits = {} THEN 0
      ELSE np[CHOOSE i \in hits : \A j \in hits : i >= j].id

\* The for loop of handlePageContext: the id of the first nested page whose
\* title includes currentMonth, 0 when the loop ends without a return.
FindMonthPage(results, currentMonth) ==
  LET np == NestedPages(results)
      hits == {i \in 1..Len(np) : Includes(np[i].title, currentMonth)}
  IN  IF hits = {} THEN 0
      ELSE np[CHOOSE i \in hits : \A j \in hits : i <= j].id

\* BeginCreateDayPage with the children left out of the create request.
BeginCreateDayPageNoChildren(loc, monthPageId, date) ==
  [loc EXCEPT !.monthPageId = monthPageId,
              !.dayDate = date,
              !.title = DayTitle(date),
              !.blocks = convertContentToBlocks(loc.digest),
              !.request = [parent |-> monthPageId, title |-> DayTitle(date),
                           children |-> <<>>]]

\* createDayPage up to its await: the title from the clock, the blocks from
\* the digest, and the create request for the day page.
BeginCreateDayPage(loc, monthPageId, date) ==
  LET title == DayTitle(date)
      blocks == convertContentToBlocks(loc.digest)
  IN  [loc EXCEPT !.monthPageId = monthPageId,
                  !.dayDate = date,
                  !.title = title,
                  !.blocks = blocks,
                  !.request = [parent |-> monthPageId, title |-> title, children |-> blocks]]

\* The locals of an invocation that has not started.
NoRequest == [parent |-> 0, title |-> <<>>, children |-> <<>>]

IdleLocal ==
  [call |-> 0, digest |-> <<>>, monthDate |-> 0, monthPageId |-> 0, found |-> FALSE,
   dayDate |-> [year |-> 0, month |-> 0, day |-> 0], title |-> <<>>, blocks |-> <<>>,
   request |-> NoRequest, result |-> 0, failedAt |-> "none"]

NoAttempts == [list |-> 0, month |-> 0, day |-> 0, convert |-> 0]

Resting == {"idle", "done", "error"}

(***************************************************************************)
(* Initial states: a root with up to MaxInitChildren blocks, and possibly  *)
(* a day page already under its first page.                                *)
(***************************************************************************)
InitRoots ==
  UNION { [1..n -> ChildChoices] : n \in 0..MaxInitChildren }

InitNotion ==
  /\ \E r \in InitRoots :
       rootChildren = [i \in 1..Len(r) |->
                         [id |-> i, type |-> r[i].type, title |-> r[i].title, by |-> 0, on |-> 0]]
  /\ \E old \in BOOLEAN :
       dayPages = IF old /\ Len(rootChildren) > 0 /\ rootChildren[1].type = "child_page"
                  THEN <<[id |-> Len(rootChildren) + 1, parent |-> 1,
                          title |-> DayTitle(Dates[1]), children |-> <<>>,
                          by |-> 0, digest |-> <<>>, date |-> Dates[1]]>>
                  ELSE <<>>
  /\ nextId = Len(rootChildren) + Len(dayPages) + 1
  /\ clock = 1
  /\ pc = [p \in Procs |-> "idle"]
  /\ local = [p \in Procs |-> IdleLocal]
  /\ attempts = [p \in Procs |-> NoAttempts]
  /\ nCalls = 0
  /\ nDone = 0

IdleConvert ==
  /\ content = <<>>
  /\ lineNo = 0
  /\ conv = ConvertStart
  /\ returned = FALSE
  /\ output = <<>>

NoTick == [branch |-> "none", generated |-> FALSE, published |-> FALSE]

NoAttempt == [at |-> 0, due |-> 0, failed |-> FALSE]

IdleSched ==
  /\ now = 0
  /\ lastNotifyTime = 0
  /\ nextScheduledTime = 0
  /\ tick = NoTick
  /\ attempt = NoAttempt

IdlePure ==
  /\ ordDate = Dates[1]
  /\ ordTitle = <<>>
  /\ parseLine = <<>>
  /\ parseSpans = <<>>

Init == InitNotion /\ IdleConvert /\ IdlePure /\ IdleSched

(***************************************************************************)
(* Actions.  A remote call is one step: the store serves the request and   *)
(* the invocation runs on to its next await.  ok = FALSE is a rejected     *)
(* promise, which leaves the store as it was.                              *)
(***************************************************************************)
\* updateMorningBriefDb(digest) is called: handlePageContext sends the listing.
\* A new invocation takes the lowest slot at rest.
updateMorningBriefDb(p, d) ==
  /\ pc[p] \in Resting
  /\ \A q \in Procs : q < p => pc[q] \notin Resting
  /\ nCalls < MaxCalls
  /\ nCalls' = nCalls + 1
  /\ pc' = [pc EXCEPT ![p] = "list"]
  /\ local' = [local EXCEPT ![p] = [IdleLocal EXCEPT !.call = nCalls + 1, !.digest = d]]
  /\ attempts' = [attempts EXCEPT ![p] = [NoAttempts EXCEPT !.list = 1]]
  /\ UNCHANGED <<rootChildren, dayPages, nextId, clock, nDone, convertVars, pureVars, schedVars>>

\* Throws with a catch that logs and does not rethrow: the call returns.
ThrowsSwallowed(p, where) ==
  /\ pc' = [pc EXCEPT ![p] = "done"]
  /\ local' = [local EXCEPT ![p].failedAt = where]

\* The catch of updateMorningBriefDb: log, then throw new Error(..).
Throws(p, where) ==
  /\ pc' = [pc EXCEPT ![p] = "error"]
  /\ local' = [local EXCEPT ![p].failedAt = where]

\* notion.blocks.children.list answers; the loop over the nested pages runs.
ListResponse(p, ok) ==
  /\ pc[p] = "list"
  /\ IF ~ok
     THEN /\ Throws(p, "list")
          /\ UNCHANGED attempts
     ELSE LET date == Dates[clock]
              hit == FindMonthPage(rootChildren, CurrentMonth(date))
          IN  IF hit # 0
              THEN /\ local' = [local EXCEPT ![p] =
                                  BeginCreateDayPage([@ EXCEPT !.monthDate = clock, !.found = TRUE],
                                                     hit, date)]
                   /\ attempts' = [attempts EXCEPT ![p].convert = @ + 1, ![p].day = @ + 1]
                   /\ pc' = [pc EXCEPT ![p] = "createDay"]
              ELSE /\ local' = [local EXCEPT ![p].monthDate = clock,
                                             ![p].request = [parent |-> RootId,
                                                             title |-> CurrentMonth(date),
                                                             children |-> <<>>]]
                   /\ attempts' = [attempts EXCEPT ![p].month = @ + 1]
                   /\ pc' = [pc EXCEPT ![p] = "createMonth"]
  /\ UNCHANGED <<rootChildren, dayPages, nextId, clock, nCalls, nDone, convertVars, pureVars, schedVars>>

\* MonthPageResponse with a compare-and-create store: no page is added when
\* the root already holds a page of that title.
MonthPageResponseGuarded(p, ok) ==
  /\ pc[p] = "createMonth"
  /\ IF ~ok
     THEN /\ Throws(p, "month")
          /\ UNCHANGED <<rootChildren, nextId, attempts>>
     ELSE LET hit == FindMonthPage(rootChildren, local[p].request.title)
          IN  /\ rootChildren' = IF hit # 0 THEN rootChildren
                                 ELSE Append(rootChildren,
                                             [id |-> nextId, type |-> "child_page",
                                              title |-> local[p].request.title,
                                              by |-> local[p].call, on |-> local[p].monthDate])
              /\ nextId' = IF hit # 0 THEN nextId ELSE nextId + 1
              /\ local' = [local EXCEPT ![p] =
                             BeginCreateDayPage(@, IF hit # 0 THEN hit ELSE nextId, Dates[clock])]
              /\ attempts' = [attempts EXCEPT ![p].convert = @ + 1, ![p].day = @ + 1]
              /\ pc' = [pc EXCEPT ![p] = "createDay"]
  /\ UNCHANGED <<dayPages, clock, nCalls, nDone, convertVars, pureVars, schedVars>>

\* notion.pages.create for the month page answers; createDayPage starts.
MonthPageResponse(p, ok) ==
  /\ pc[p] = "createMonth"
  /\ IF ~ok
     THEN /\ Throws(p, "month")
          /\ UNCHANGED <<rootChildren, nextId, attempts>>
     ELSE /\ rootChildren' = Append(rootChildren,
                                    [id |-> nextId, type |-> "child_page",
                                     title |-> local[p].request.title,
                                     by |-> local[p].call, on |-> local[p].monthDate])
          /\ nextId' = nextId + 1
          /\ local' = [local EXCEPT ![p] = BeginCreateDayPage(@, nextId, Dates[clock])]
          /\ attempts' = [attempts EXCEPT ![p].convert = @ + 1, ![p].day = @ + 1]
          /\ pc' = [pc EXCEPT ![p] = "createDay"]
  /\ UNCHANGED <<dayPages, clock, nCalls, nDone, convertVars, pureVars, schedVars>>

\* DayPageResponse with a lookup first: a day page of that title under the
\* month page is reused instead of a new one being created.
DayPageResponseDedup(p, ok) ==
  /\ pc[p] = "createDay"
  /\ IF ~ok
     THEN /\ Throws(p, "day")
          /\ UNCHANGED <<dayPages, nextId, nDone>>
     ELSE LET same == {i \in DOMAIN dayPages :
                         /\ dayPages[i].parent = local[p].request.parent
                         /\ dayPages[i].title = local[p].request.title}
          IN  /\ dayPages' = IF same # {} THEN dayPages
                             ELSE Append(dayPages,
                                         [id |-> nextId, parent |-> local[p].request.parent,
                                          title |-> local[p].request.title,
                                          children |-> local[p].request.children,
                                          by |-> local[p].call, digest |-> local[p].digest,
                                          date |-> local[p].dayDate])
              /\ nextId' = IF same # {} THEN nextId ELSE nextId + 1
              /\ nDone' = nDone + 1
              /\ local' = [local EXCEPT ![p].result =
                             IF same # {} THEN dayPages[CHOOSE i \in same : TRUE].id ELSE nextId]
              /\ pc' = [pc EXCEPT ![p] = "done"]
  /\ UNCHANGED <<rootChildren, clock, attempts, nCalls, convertVars, pureVars, schedVars>>

\* DayPageResponse undoing the call's own month page when the day-page
\* create fails.
DayPageResponseRollback(p, ok) ==
  /\ pc[p] = "createDay"
  /\ IF ~ok
     THEN /\ Throws(p, "day")
          /\ rootChildren' = SelectSeq(rootChildren, LAMBDA b : b.by # local[p].call)
          /\ UNCHANGED <<dayPages, nextId, nDone>>
     ELSE /\ dayPages' = Append(dayPages,
                                [id |-> nextId, parent |-> local[p].request.parent,
                                 title |-> local[p].request.title,
                                 children |-> local[p].request.children,
                                 by |-> local[p].call, digest |-> local[p].digest,
                                 date |-> local[p].dayDate])
          /\ nextId' = nextId + 1
          /\ nDone' = nDone + 1
          /\ local' = [local EXCEPT ![p].result = nextId]
          /\ pc' = [pc EXCEPT ![p] = "done"]
          /\ UNCHANGED rootChildren
  /\ UNCHANGED <<clock, attempts, nCalls, convertVars, pureVars, schedVars>>

\* notion.pages.create for the day page answers; updateMorningBriefDb returns it.
DayPageResponse(p, ok) ==
  /\ pc[p] = "createDay"
  /\ IF ~ok
     THEN /\ Throws(p, "day")
          /\ UNCHANGED <<dayPages, nextId, nDone>>
     ELSE /\ dayPages' = Append(dayPages,
                                [id |-> nextId, parent |-> local[p].request.parent,
                                 title |-> local[p].request.title,
                                 children |-> local[p].request.children,
                                 by |-> local[p].call, digest |-> local[p].digest,
                                 date |-> local[p].dayDate])
          /\ nextId' = nextId + 1
          /\ nDone' = nDone + 1
          /\ local' = [local EXCEPT ![p].result = nextId]
          /\ pc' = [pc EXCEPT ![p] = "done"]
  /\ UNCHANGED <<rootChildren, clock, attempts, nCalls, convertVars, pureVars, schedVars>>

\* Time passes: the clock moves to a later date.
Tick ==
  /\ \E later \in (clock + 1)..Len(Dates) : clock' = later
  /\ UNCHANGED <<rootChildren, dayPages, nextId, pc, local, attempts, nCalls, nDone, convertVars, pureVars, schedVars>>

Next ==
  \/ \E p \in Procs : updateMorningBriefDb(p, TodaysDigest)
  \/ \E p \in Procs, ok \in BOOLEAN : ListResponse(p, ok)
  \/ \E p \in Procs, ok \in BOOLEAN : MonthPageResponse(p, ok)
  \/ \E p \in Procs, ok \in BOOLEAN : DayPageResponse(p, ok)
  \/ Tick

Spec == Init /\ [][Next]_vars

(***************************************************************************)
(* The same program with invocations that do not overlap: a call starts    *)
(* only when no other is in flight.                                        *)
(***************************************************************************)
updateAlone(p, d) ==
  /\ \A q \in Procs : pc[q] \in Resting
  /\ updateMorningBriefDb(p, d)

NextSeq ==
  \/ \E p \in Procs : updateAlone(p, TodaysDigest)
  \/ \E p \in Procs, ok \in BOOLEAN : ListResponse(p, ok)
  \/ \E p \in Procs, ok \in BOOLEAN : MonthPageResponse(p, ok)
  \/ \E p \in Procs, ok \in BOOLEAN : DayPageResponse(p, ok)
  \/ Tick

SpecSeq == Init /\ [][NextSeq]_vars

(***************************************************************************)
(* convertContentToBlocks run line by line on the inputs made of up to     *)
(* MaxLines lines drawn from Lines.                                        *)
(***************************************************************************)
Lines ==
  { <<"-", "-", "-">>,
    <<" ", "-", "-", "-", " ">>,
    <<>>,
    <<" ">>,
    <<"#", " ", "T">>,
    <<"#", "#", " ", "[", "a", "]", "(", "b", ")">>,
    <<"#", "#", "#", " ", "@", "(", "[", "a", "]", "(", "b", ")", ")", " ", "c">>,
    <<"-", " ", "a">>,
    <<"a", "b">>,
    <<"A", "I", " ", "S", "u", "m", "m">>,
    <<"a", "r", "i", "z", "e", "d", " ", "x">>,
    <<"[", "a", "]", "(", "b">>,
    <<"x", " ", "[", "a", "]", "(", "b", ")", " ", "y">> }

Contents == { JoinLines(ls) : ls \in UNION { [1..n -> Lines] : n \in 1..MaxLines } }

ContentLines == SplitOn(content, <<"\n">>)

IdleNotion ==
  /\ rootChildren = <<>>
  /\ dayPages = <<>>
  /\ nextId = 1
  /\ clock = 1
  /\ pc = [p \in Procs |-> "idle"]
  /\ local = [p \in Procs |-> IdleLocal]
  /\ attempts = [p \in Procs |-> NoAttempts]
  /\ nCalls = 0
  /\ nDone = 0

InitConvert ==
  /\ content \in Contents
  /\ lineNo = 0
  /\ conv = ConvertStart
  /\ returned = FALSE
  /\ output = <<>>
  /\ IdleNotion
  /\ IdlePure
  /\ IdleSched

\* for (const line of lines) { .. }: one iteration.
ConvertStep ==
  /\ ~returned
  /\ lineNo < Len(ContentLines)
  /\ conv' = ConvertLine(conv, ContentLines[lineNo + 1])
  /\ lineNo' = lineNo + 1
  /\ UNCHANGED <<content, returned, output, notionVars, pureVars, schedVars>>

\* The last flush and return blocks.filter(block => block !== null).
ConvertReturn ==
  /\ ~returned
  /\ lineNo = Len(ContentLines)
  /\ output' = ConvertFinish(conv)
  /\ conv' = [conv EXCEPT !.blocks = PushParagraph(conv).blocks]
  /\ returned' = TRUE
  /\ UNCHANGED <<content, lineNo, notionVars, pureVars, schedVars>>

NextConvert == ConvertStep \/ ConvertReturn

SpecConvert == InitConvert /\ [][NextConvert]_vars

(***************************************************************************)
(* Properties of the month-page resolver.                                  *)
(***************************************************************************)
\* The month name an invocation read when it scanned the listing.
MonthRead(p) == MonthNames[Dates[local[p].monthDate].month]

\* Block b is a page whose title contains the month name m.
Matches(b, m) == b.type = "child_page" /\ Includes(b.title, m)

HasMatch(m) == \E i \in DOMAIN rootChildren : Matches(rootChildren[i], m)

\* id is the id of the first block of the listing that matches m.
IsFirstMatch(id, m) ==
  \E i \in DOMAIN rootChildren :
    /\ Matches(rootChildren[i], m)
    /\ \A j \in 1..(i - 1) : ~Matches(rootChildren[j], m)
    /\ rootChildren[i].id = id

\* Blocks i and j of the root were created by calls that read the same
\* calendar month.
SameMonthCreated(i, j) ==
  /\ rootChildren[i].by # 0
  /\ rootChildren[j].by # 0
  /\ Dates[rootChildren[i].on].year = Dates[rootChildren[j].on].year
  /\ Dates[rootChildren[i].on].month = Dates[rootChildren[j].on].month

\* C1: with calls that do not overlap, the calls of one calendar month create
\* at most one month page under the root: a create is pending only while no
\* page of the root contains the month name, and a call that found a match
\* uses the first one in listing order and issued no create.
C1_OneMonthPagePerMonth ==
  /\ \A i, j \in DOMAIN rootChildren : SameMonthCreated(i, j) => i = j
  /\ \A p \in Procs : pc[p] = "createMonth" => ~HasMatch(MonthRead(p))
  /\ \A p \in Procs :
       (local[p].found /\ pc[p] \in {"createDay", "done", "error"}) =>
          /\ IsFirstMatch(local[p].monthPageId, MonthRead(p))
          /\ attempts[p].month = 0

\* A call created a month page and a later call of the same month put its
\* day page under it.
C1_Witness ==
  \E i \in DOMAIN rootChildren, j \in DOMAIN dayPages :
    /\ rootChildren[i].by # 0
    /\ dayPages[j].by \notin {0, rootChildren[i].by}
    /\ dayPages[j].parent = rootChildren[i].id
    /\ dayPages[j].date.month = Dates[rootChildren[i].on].month
    /\ dayPages[j].date.year = Dates[rootChildren[i].on].year

\* C2: nothing guards the month-page create of overlapping calls: whenever a
\* pending create is served, a page with the requested title is added to the
\* root, also when the root already holds a page with that title.
C2_CreateUnguarded ==
  [][\A p \in Procs :
       (pc[p] = "createMonth" /\ pc'[p] = "createDay") =>
          /\ Len(rootChildren') = Len(rootChildren) + 1
          /\ rootChildren'[Len(rootChildren')].title = local[p].request.title
          /\ rootChildren'[Len(rootChildren')].type = "child_page"]_vars

\* Two calls that read the same month both created a month page: the root
\* holds two pages with the same title.
C2_Witness ==
  \E i, j \in DOMAIN rootChildren :
    /\ i # j
    /\ SameMonthCreated(i, j)
    /\ rootChildren[i].title = rootChildren[j].title

\* C3: when the listing holds a page whose title contains the current month
\* name, handlePageContext returns the first such page in listing order and
\* the store is left unchanged.
C3_FirstMatchReturned ==
  [][\A p \in Procs :
       (/\ pc[p] = "list"
        /\ pc'[p] \notin {"list", "error"}
        /\ HasMatch(MonthNames[Dates[clock].month])) =>
          /\ pc'[p] = "createDay"
          /\ IsFirstMatch(local'[p].monthPageId, MonthNames[Dates[clock].month])
          /\ local'[p].request.parent = local'[p].monthPageId
          /\ attempts'[p].month = 0
          /\ rootChildren' = rootChildren
          /\ dayPages' = dayPages
          /\ nextId' = nextId]_vars

\* A call resolved the month page to the first of two matching pages with
\* different titles.
C3_Witness ==
  \E p \in Procs, i, j \in DOMAIN rootChildren :
    /\ pc[p] = "createDay"
    /\ local[p].found
    /\ i < j
    /\ Matches(rootChildren[i], MonthRead(p))
    /\ Matches(rootChildren[j], MonthRead(p))
    /\ rootChildren[i].title # rootChildren[j].title
    /\ local[p].monthPageId = rootChildren[i].id

\* C4: when no page of the listing contains the current month name,
\* handlePageContext issues one create with the root as parent and the month
\* name as title, and the page created is the one it returns.
C4_CreatesMonthPage ==
  [][\A p \in Procs :
       /\ (/\ pc[p] = "list"
           /\ pc'[p] \notin {"list", "error"}
           /\ ~HasMatch(MonthNames[Dates[clock].month])) =>
             /\ pc'[p] = "createMonth"
             /\ local'[p].request.parent = RootId
             /\ local'[p].request.title = MonthNames[Dates[clock].month]
             /\ attempts'[p].month = 1
             /\ rootChildren' = rootChildren
       /\ (pc[p] = "createMonth" /\ pc'[p] = "createDay") =>
             /\ rootChildren' = Append(rootChildren,
                                       [id |-> nextId, type |-> "child_page",
                                        title |-> MonthRead(p),
                                        by |-> local[p].call, on |-> local[p].monthDate])
             /\ local'[p].monthPageId = nextId
             /\ local'[p].request.parent = nextId
             /\ attempts'[p].month = 1]_vars

\* A call found no match, created the month page and holds it as the parent
\* of its day page.
C4_Witness ==
  \E p \in Procs, i \in DOMAIN rootChildren :
    /\ pc[p] = "createDay"
    /\ ~local[p].found
    /\ rootChildren[i].by = local[p].call
    /\ rootChildren[i].title = MonthRead(p)
    /\ local[p].monthPageId = rootChildren[i].id

(***************************************************************************)
(* Properties of createDayPage and updateMorningBriefDb.                   *)
(***************************************************************************)
\* The day pages the calls created (by = 0: a page that was there before).
CallPages == {i \in DOMAIN dayPages : dayPages[i].by # 0}

\* C5 as stated: no two day pages created under the same month page share a
\* title.
C5_UniqueTitles ==
  \A i, j \in CallPages :
    (i # j /\ dayPages[i].parent = dayPages[j].parent) => dayPages[i].title # dayPages[j].title

\* C5 amended: the title of a day page is its month name and ordinal day, so
\* two day pages created under the same month page share a title exactly when
\* their calls read the same month and day of the month.
C5_TitleIsTheDate ==
  \A i, j \in CallPages :
    (i # j /\ dayPages[i].parent = dayPages[j].parent) =>
       ((dayPages[i].title = dayPages[j].title)
          <=> (/\ dayPages[i].date.month = dayPages[j].date.month
               /\ dayPages[i].date.day = dayPages[j].date.day))

\* Two calls on different days of one month left two differently titled day
\* pages under the same month page.
C5_Witness ==
  \E i, j \in CallPages :
    /\ dayPages[i].parent = dayPages[j].parent
    /\ dayPages[i].date.month = dayPages[j].date.month
    /\ dayPages[i].date.day # dayPages[j].date.day
    /\ dayPages[i].title # dayPages[j].title

\* C6: each call that returned created one day page of its own under the
\* month page it resolved: the day pages are those that were there before
\* plus one per returned call.
C6_OneDayPagePerCall ==
  /\ Cardinality(CallPages) = nDone
  /\ Len(dayPages) = Cardinality(DOMAIN dayPages \ CallPages) + nDone
  /\ \A i, j \in DOMAIN dayPages : dayPages[i].id = dayPages[j].id => i = j
  /\ \A p \in Procs :
       pc[p] = "done" =>
         \E i \in CallPages :
           /\ dayPages[i].by = local[p].call
           /\ dayPages[i].id = local[p].result
           /\ dayPages[i].parent = local[p].monthPageId
           /\ \A j \in CallPages : dayPages[j].by = local[p].call => j = i

\* A call created a day page under a month page that already held a day
\* page with the same title.
C6_Witness ==
  \E i \in CallPages, j \in DOMAIN dayPages \ CallPages :
    /\ dayPages[i].parent = dayPages[j].parent
    /\ dayPages[i].title = dayPages[j].title
    /\ nDone >= 1

\* C7: a failed remote call ends the invocation in the error outcome with no
\* page returned; no remote operation is attempted twice by one invocation;
\* the day page is neither converted nor requested when the listing or the
\* month-page create failed.
C7_FailurePropagates ==
  \A p \in Procs :
    /\ attempts[p].list <= 1
    /\ attempts[p].month <= 1
    /\ attempts[p].day <= 1
    /\ (local[p].failedAt # "none") <=> (pc[p] = "error")
    /\ pc[p] = "error" => local[p].result = 0
    /\ local[p].failedAt = "list" => attempts[p] = [list |-> 1, month |-> 0, day |-> 0, convert |-> 0]
    /\ local[p].failedAt = "month" => attempts[p] = [list |-> 1, month |-> 1, day |-> 0, convert |-> 0]
    /\ local[p].failedAt = "day" => (attempts[p].day = 1 /\ attempts[p].list = 1)

\* The month-page create failed: the call ended in error before createDayPage.
C7_Witness ==
  \E p \in Procs :
    /\ pc[p] = "error"
    /\ local[p].failedAt = "month"
    /\ attempts[p].day = 0

\* Block id is a page of the root.
IsRootPage(children, id) ==
  \E i \in DOMAIN children : children[i].type = "child_page" /\ children[i].id = id

\* C8: createDayPage converts digest.content once per call; the create
\* request it sends has the month page as parent and the conversion's blocks,
\* in order, as children, and the page the store makes of it has the same.
C8_ChildrenAreTheConversion ==
  [][\A p \in Procs :
       /\ (pc[p] # "createDay" /\ pc'[p] = "createDay") =>
             /\ attempts[p].convert = 0
             /\ attempts'[p].convert = 1
             /\ attempts'[p].day = 1
             /\ local'[p].request.children = convertContentToBlocks(local[p].digest)
             /\ local'[p].request.parent = local'[p].monthPageId
             /\ IsRootPage(rootChildren', local'[p].monthPageId)
       /\ (pc[p] = "createDay" /\ pc'[p] # "createDay") =>
             /\ attempts'[p].convert = 1
             /\ attempts'[p].day = 1
       /\ (pc[p] = "createDay" /\ pc'[p] = "done") =>
             /\ Len(dayPages') = Len(dayPages) + 1
             /\ dayPages'[Len(dayPages')].children = convertContentToBlocks(local[p].digest)
             /\ dayPages'[Len(dayPages')].parent = local[p].monthPageId
             /\ dayPages'[Len(dayPages')].id = local'[p].result]_vars

\* A call created a day page whose children are the two blocks of its digest.
C8_Witness ==
  \E i \in CallPages :
    /\ Len(dayPages[i].children) >= 2
    /\ dayPages[i].children[1].type # dayPages[i].children[2].type

(***************************************************************************)
(* Properties of convertContentToBlocks.                                   *)
(***************************************************************************)
\* No line of the content is "---" once trimmed.
NoSeparator == \A i \in DOMAIN ContentLines : Trim(ContentLines[i]) # <<"-", "-", "-">>

Paragraphs(bs) == SelectSeq(bs, LAMBDA b : b.type = "paragraph")

\* C9: on a content with no "---" line the conversion never leaves the
\* introduction, collects nothing and returns no block.
C9_NoSeparatorNoBlocks ==
  NoSeparator =>
    /\ conv.skipIntroduction
    /\ conv.blocks = <<>>
    /\ conv.currentParagraph = <<>>
    /\ returned => output = <<>>

\* The conversion of a content without separator that holds a heading, a
\* bullet or a paragraph line has returned.
C9_Witness ==
  /\ returned
  /\ NoSeparator
  /\ output = <<>>
  /\ \E i \in DOMAIN ContentLines :
       \/ StartsWith(ContentLines[i], <<"#", " ">>)
       \/ StartsWith(ContentLines[i], <<"-", " ">>)
  /\ \E i \in DOMAIN ContentLines : ContentLines[i] = <<"a", "b">>

\* No rich-text item of a paragraph block of bs holds the marker.
MarkerFree(bs) ==
  \A i \in DOMAIN bs :
    bs[i].type = "paragraph" =>
      \A k \in DOMAIN bs[i].rich_text :
        /\ ~Includes(bs[i].rich_text[k].content, AISummarized)
        /\ ~Includes(bs[i].rich_text[k].url, AISummarized)

\* C10: no paragraph block collected or returned holds "AI Summarized", and
\* the flush of an accumulated paragraph that contains it, in the loop or
\* after it, adds no paragraph block.
C10_MarkedParagraphDropped ==
  /\ [](MarkerFree(conv.blocks) /\ MarkerFree(output))
  /\ [][(/\ Includes(conv.currentParagraph, AISummarized)
         /\ \/ conv'.currentParagraph = <<>>
            \/ returned') =>
           /\ Paragraphs(conv'.blocks) = Paragraphs(conv.blocks)
           /\ returned' => Paragraphs(output') = Paragraphs(conv.blocks)]_vars

\* A paragraph that two lines add up to, marker and more text, was flushed
\* and dropped whole.
C10_Witness ==
  /\ returned
  /\ \E i \in DOMAIN conv.blocks : conv.blocks[i] = NullBlock
  /\ \E i \in DOMAIN ContentLines : ContentLines[i] = <<"a", "r", "i", "z", "e", "d", " ", "x">>
  /\ \A i \in DOMAIN output : output[i] # NullBlock

(***************************************************************************)
(* Properties of blank lines and of the value returned.                    *)
(***************************************************************************)
BlankLine(l) == Trim(l) = <<>>

\* b is a paragraph block whose rich text is that of the empty string.
EmptyParagraph(b) ==
  /\ b.type = "paragraph"
  /\ b.rich_text \in {<<>>, <<PlainText(<<>>)>>}

NotNull(bs) == SelectSeq(bs, LAMBDA b : b # NullBlock)

\* C11: the value returned holds no null and no paragraph block with empty
\* text; a blank line after the separator adds at most the block of the
\* paragraph pending before it and nothing when no paragraph is pending, so
\* the second blank line of a run changes nothing; and when no paragraph is
\* pending at the end of the loop, as after a last bullet or heading and a
\* trailing newline, the return adds no block.
C11_NoEmptyParagraphNoNull ==
  /\ [](/\ \A i \in DOMAIN output : output[i] # NullBlock /\ ~EmptyParagraph(output[i])
        /\ \A i \in DOMAIN conv.blocks : ~EmptyParagraph(conv.blocks[i]))
  /\ [][(/\ lineNo' = lineNo + 1
         /\ ~conv.skipIntroduction
         /\ BlankLine(ContentLines[lineNo'])) =>
           /\ conv'.currentParagraph = <<>>
           /\ Len(conv'.blocks) <= Len(conv.blocks) + 1
           /\ SubSeq(conv'.blocks, 1, Len(conv.blocks)) = conv.blocks
           /\ conv.currentParagraph = <<>> => conv' = conv
           /\ (lineNo >= 1 /\ BlankLine(ContentLines[lineNo])) => conv' = conv]_vars
  /\ [][(returned' /\ ~returned /\ conv.currentParagraph = <<>>) =>
           output' = NotNull(conv.blocks)]_vars

\* The conversion of "---", a bullet and an empty last line, which is what a
\* trailing newline splits into, returned the bullet alone.
C11_Witness ==
  /\ returned
  /\ Len(ContentLines) = 3
  /\ Trim(ContentLines[1]) = <<"-", "-", "-">>
  /\ StartsWith(ContentLines[2], <<"-", " ">>)
  /\ ContentLines[3] = <<>>
  /\ Len(output) = 1
  /\ output[1].type = "bulleted_list_item"

(***************************************************************************)
(* The day title alone: createDayPage's title for every day of a year.     *)
(***************************************************************************)
\* Days of each month, February with its leap day.
DaysIn == <<31, 29, 31, 30, 31, 30, 31, 31, 30, 31, 30, 31>>

InitOrdinal ==
  /\ \E m \in 1..12 : \E d \in 1..DaysIn[m] :
       ordDate = [year |-> 1, month |-> m, day |-> d]
  /\ ordTitle = <<>>
  /\ parseLine = <<>>
  /\ parseSpans = <<>>
  /\ IdleNotion
  /\ IdleConvert
  /\ IdleSched

\* const month = ..; const day = date.getDate(); const title = ..
ComputeTitle ==
  /\ ordTitle = <<>>
  /\ ordTitle' = DayTitle(ordDate)
  /\ UNCHANGED <<ordDate, parseLine, parseSpans, notionVars, convertVars, schedVars>>

NextOrdinal == ComputeTitle

SpecOrdinal == InitOrdinal /\ [][NextOrdinal]_vars

\* The suffix the English ordinal of d takes.
EnglishSuffix(d) ==
  IF d % 100 \in {11, 12, 13} THEN <<"t", "h">>
  ELSE IF d % 10 = 1 THEN <<"s", "t">>
  ELSE IF d % 10 = 2 THEN <<"n", "d">>
  ELSE IF d % 10 = 3 THEN <<"r", "d">>
  ELSE <<"t", "h">>

\* The decimal digits of d, for d below 100.
Decimal(d) ==
  IF d < 10 THEN <<Digit[d + 1]>>
  ELSE <<Digit[(d \div 10) + 1], Digit[(d % 10) + 1]>>

\* C12: for every day of the month d in 1..31 the title computed is the
\* month name, a space, d in decimal and the suffix "th" when d mod 100 is
\* 11, 12 or 13, else "st", "nd" or "rd" when d mod 10 is 1, 2 or 3, else
\* "th".
C12_OrdinalSuffix ==
  ordTitle # <<>> =>
    /\ ordDate.day \in 1..31
    /\ getOrdinalSuffix(ordDate.day) = Decimal(ordDate.day) \o EnglishSuffix(ordDate.day)
    /\ ordTitle = MonthNames[ordDate.month] \o <<" ">>
                    \o Decimal(ordDate.day) \o EnglishSuffix(ordDate.day)

\* The title of a 12th was computed and ends in "12th".
C12_Witness ==
  /\ ordDate.day = 12
  /\ ordTitle # <<>>
  /\ SubSeq(ordTitle, Len(ordTitle) - 3, Len(ordTitle)) = <<"1", "2", "t", "h">>

(***************************************************************************)
(* parseRichText alone, on every line of up to MaxChars characters of      *)
(* link punctuation and a letter.                                          *)
(***************************************************************************)
ParseChars == {"a", "[", "]", "(", ")"}

ParseInputs == UNION { [1..n -> ParseChars] : n \in 0..MaxChars }

InitParse ==
  /\ parseLine \in ParseInputs
  /\ parseSpans = <<>>
  /\ ordDate = Dates[1]
  /\ ordTitle = <<>>
  /\ IdleNotion
  /\ IdleConvert
  /\ IdleSched

\* parseRichText(content): content.split(..).map(..)
Parse ==
  /\ parseSpans = <<>>
  /\ parseSpans' = parseRichText(parseLine)
  /\ UNCHANGED <<parseLine, ordDate, ordTitle, notionVars, convertVars, schedVars>>

NextParse == Parse

SpecParse == InitParse /\ [][NextParse]_vars

\* The surface text of a span: a plain span is its content, a link span is
\* [content](url), with nothing for a url that is undefined.
SpanText(sp) ==
  IF sp.link = "none" THEN sp.content
  ELSE <<"[">> \o sp.content \o <<"]", "(">> \o sp.url \o <<")">>

RECURSIVE Reassemble(_)
Reassemble(spans) ==
  IF spans = <<>> THEN <<>> ELSE SpanText(Head(spans)) \o Reassemble(Tail(spans))

\* C13: the spans parseRichText returns, concatenated with every link span
\* written back as [content](url) and the empty plain spans kept, are the
\* line it was given.
C13_RoundTrip ==
  parseSpans # <<>> => Reassemble(parseSpans) = parseLine

\* tok is a complete [text](url) form: the link pattern matches all of it.
CompleteLink(tok) == tok # <<>> /\ LinkEnd(tok, 1) = Len(tok)

\* C14: every piece of the line that is not a complete [text](url) form,
\* like "[a](b" without its closing parenthesis, comes back as a plain span
\* holding the piece literally, never as a link span.
C14_MalformedIsPlain ==
  parseSpans # <<>> =>
    LET parts == SplitLinks(parseLine)
    IN  \A n \in DOMAIN parts :
          ~CompleteLink(parts[n]) =>
            /\ n \in DOMAIN parseSpans
            /\ parseSpans[n] = PlainText(parts[n])

(***************************************************************************)
(* Properties of headings.                                                 *)
(***************************************************************************)
IsSeparator(l) == Trim(l) = <<"-", "-", "-">>

\* The index of the first separator line of the content, 0 when none.
FirstSeparator ==
  LET ls == ContentLines
      seps == {i \in DOMAIN ls : IsSeparator(ls[i])}
  IN  IF seps = {} THEN 0 ELSE CHOOSE i \in seps : \A j \in seps : i <= j

\* The heading level of a line, 0 for a line that is no heading.
HeadingLevel(l) ==
  IF StartsWith(l, <<"#", " ">>) THEN 1
  ELSE IF StartsWith(l, <<"#", "#", " ">>) THEN 2
  ELSE IF StartsWith(l, <<"#", "#", "#", " ">>) THEN 3
  ELSE 0

HeadingTypes == <<"heading_1", "heading_2", "heading_3">>

\* The heading block the specification describes for a heading line: the
\* remainder after the prefix, placeholders stripped, trimmed, then parsed.
ParsedHeading(l) ==
  [type |-> HeadingTypes[HeadingLevel(l)],
   rich_text |-> parseRichText(Trim(StripPlaceholders(Substring(l, HeadingLevel(l) + 1))))]

\* The heading blocks due for the body lines among the first n lines.
RECURSIVE ParsedHeadings(_)
ParsedHeadings(n) ==
  IF n = 0 \/ FirstSeparator = 0 \/ n <= FirstSeparator THEN <<>>
  ELSE IF HeadingLevel(ContentLines[n]) # 0
       THEN Append(ParsedHeadings(n - 1), ParsedHeading(ContentLines[n]))
       ELSE ParsedHeadings(n - 1)

Headings(bs) == SelectSeq(bs, LAMBDA b : b.type \in {"heading_1", "heading_2", "heading_3"})

\* C15: the heading blocks collected so far, and those returned, are in
\* order the heading lines consumed after the separator, each with the
\* parsed rich text of its remainder, so that a [text](url) in a heading
\* line is a link span of the heading.
C15_HeadingTextIsParsed ==
  /\ Headings(conv.blocks) = ParsedHeadings(lineNo)
  /\ returned => Headings(output) = ParsedHeadings(Len(ContentLines))

(***************************************************************************)
(* Properties of the introduction.                                         *)
(***************************************************************************)
\* The lines after the first separator.
BodyLines ==
  LET ls == ContentLines
  IN  SubSeq(ls, FirstSeparator + 1, Len(ls))

\* C16: the conversion starts skipping and skips exactly until the first
\* separator line is consumed; the lines up to and including it leave no
\* block and no paragraph text; once collecting it stays collecting, and a
\* later separator line is appended to the paragraph like any text; the
\* value returned is the conversion of the lines after the first separator.
C16_IntroductionSkippedOnce ==
  /\ [](LET sep == FirstSeparator
        IN  /\ conv.skipIntroduction <=> (sep = 0 \/ lineNo < sep)
            /\ (sep = 0 \/ lineNo <= sep) =>
                 (conv.blocks = <<>> /\ conv.currentParagraph = <<>>)
            /\ (returned /\ sep # 0) =>
                 output = ConvertFinish(ConvertLines(ConvertStartCollecting, BodyLines)))
  /\ [][~conv.skipIntroduction => ~conv'.skipIntroduction]_vars
  /\ [][(/\ lineNo' = lineNo + 1
         /\ ~conv.skipIntroduction
         /\ IsSeparator(ContentLines[lineNo'])) =>
           conv' = [conv EXCEPT !.currentParagraph = @ \o ContentLines[lineNo']]]_vars

\* A content of a heading line, the separator and a second separator line
\* was converted: the heading was skipped and the second separator is the
\* text of the one paragraph returned.
C16_Witness ==
  /\ returned
  /\ Len(ContentLines) = 3
  /\ HeadingLevel(ContentLines[1]) # 0
  /\ FirstSeparator = 2
  /\ IsSeparator(ContentLines[3])
  /\ Len(output) = 1
  /\ output[1] = [type |-> "paragraph", rich_text |-> <<PlainText(ContentLines[3])>>]

(***************************************************************************)
(* Properties of the order of the blocks.                                  *)
(***************************************************************************)
\* A line that opens a block of its own: a heading or a bullet.
OpensBlock(l) == HeadingLevel(l) # 0 \/ StartsWith(l, <<"-", " ">>)

\* The text pending after the first n lines: the body lines since the last
\* heading, bullet or blank line, concatenated with nothing between them.
RECURSIVE PendingTextOf(_, _, _)
PendingTextOf(ls, sep, n) ==
  IF n = 0 \/ sep = 0 \/ n <= sep THEN <<>>
  ELSE IF OpensBlock(ls[n]) \/ BlankLine(ls[n]) THEN <<>>
  ELSE PendingTextOf(ls, sep, n - 1) \o ls[n]

PendingText(n) == PendingTextOf(ContentLines, FirstSeparator, n)

\* The block a flush of the text t appends: null for a text with the
\* marker (C10), else the paragraph of the parsed text.
FlushedBlock(t) ==
  IF Includes(t, AISummarized) THEN NullBlock
  ELSE [type |-> "paragraph", rich_text |-> parseRichText(t)]

\* C17: blocks are only ever appended, so they stand in the order of their
\* lines; the accumulator is the exact concatenation of the paragraph lines
\* pending; a heading or bullet line consumed while text is pending appends
\* the block of that text and directly after it its own block, and leaves
\* the accumulator empty; the value returned keeps the collected order.
C17_BlocksInLineOrder ==
  /\ [](/\ conv.currentParagraph = PendingText(lineNo)
        /\ returned => output = NotNull(conv.blocks))
  /\ [][SubSeq(conv'.blocks, 1, Len(conv.blocks)) = conv.blocks]_vars
  /\ [][(/\ lineNo' = lineNo + 1
         /\ ~conv.skipIntroduction
         /\ OpensBlock(ContentLines[lineNo'])) =>
           LET n == Len(conv.blocks)
               k == IF conv.currentParagraph = <<>> THEN 0 ELSE 1
           IN  /\ Len(conv'.blocks) = n + k + 1
               /\ k = 1 => conv'.blocks[n + 1] = FlushedBlock(conv.currentParagraph)
               /\ conv'.blocks[n + k + 1].type
                    \in {"heading_1", "heading_2", "heading_3", "bulleted_list_item"}
               /\ conv'.currentParagraph = <<>>]_vars

\* "---", a paragraph line and a heading line were converted: the paragraph
\* of the line stands directly before the heading.
C17_Witness ==
  /\ returned
  /\ Len(ContentLines) = 3
  /\ FirstSeparator = 1
  /\ ContentLines[2] = <<"a", "b">>
  /\ HeadingLevel(ContentLines[3]) # 0
  /\ Len(output) = 2
  /\ output[1] = [type |-> "paragraph", rich_text |-> <<PlainText(<<"a", "b">>)>>]
  /\ output[2].type \in {"heading_1", "heading_2", "heading_3"}

(***************************************************************************)
(* Properties of a failure between the two creates.                        *)
(***************************************************************************)
\* Invocation p read the calendar month in which root block i was created.
ReadMonthOf(p, i) ==
  /\ local[p].monthDate # 0
  /\ Dates[local[p].monthDate].year = Dates[rootChildren[i].on].year
  /\ Dates[local[p].monthDate].month = Dates[rootChildren[i].on].month

\* C18: with calls that do not overlap, a failed day-page create ends the
\* call in the error outcome and changes nothing in the store: no day page
\* is added and the month page the call created stays under the root, where
\* no step ever removes a block; every later call that reads the same month
\* finds that page, issues no month-page create and works under it.
C18_NoRollbackMonthPageReused ==
  /\ [][\A p \in Procs :
          (pc[p] = "createDay" /\ pc'[p] = "error") =>
            /\ rootChildren' = rootChildren
            /\ dayPages' = dayPages
            /\ local'[p].failedAt = "day"
            /\ ~local[p].found =>
                 \E i \in DOMAIN rootChildren' :
                   /\ rootChildren'[i].id = local[p].monthPageId
                   /\ rootChildren'[i].by = local[p].call]_vars
  /\ [][SubSeq(rootChildren', 1, Len(rootChildren)) = rootChildren]_vars
  /\ [](\A i \in DOMAIN rootChildren : \A p \in Procs :
          (/\ rootChildren[i].by # 0
           /\ local[p].call > rootChildren[i].by
           /\ ReadMonthOf(p, i)) =>
             /\ pc[p] # "createMonth"
             /\ attempts[p].month = 0
             /\ local[p].found
             /\ local[p].monthPageId = rootChildren[i].id)

\* A call created a month page and left no day page, so its day-page create
\* failed; the next call of the same month put its day page under that
\* month page.
C18_Witness ==
  \E i \in DOMAIN rootChildren, j \in DOMAIN dayPages :
    /\ rootChildren[i].by # 0
    /\ \A k \in DOMAIN dayPages : dayPages[k].by # rootChildren[i].by
    /\ dayPages[j].by > rootChildren[i].by
    /\ dayPages[j].parent = rootChildren[i].id
    /\ dayPages[j].date.month = Dates[rootChildren[i].on].month
    /\ Cardinality({k \in DOMAIN rootChildren : rootChildren[k].by # 0}) = 1

(***************************************************************************)
(* The scheduler: Command, run on every tick.  Times are milliseconds      *)
(* since the local midnight of day 0; a stored time of 0 is the store      *)
(* holding none.  Ticks do not overlap, the clock never goes back and the  *)
(* notification time stays the default.                                    *)
(***************************************************************************)
MsPerMinute == 60000

MsPerDay == 86400000

\* The hour of the notification time "8am".
NotificationHour == 8

\* const minimumInterval = 60
minimumInterval == 60

\* date-fns
addMinutes(t, m) == t + m * MsPerMinute

subMinutes(t, m) == t - m * MsPerMinute

\* addDays ignoring its count.
addDaysNone(t, n) == t

addDays(t, n) == t + n * MsPerDay

isAfter(a, b) == a > b

\* The whole minutes between two times, truncated towards zero.
differenceInMinutes(a, b) ==
  IF a >= b THEN (a - b) \div MsPerMinute ELSE -((b - a) \div MsPerMinute)

\* chrono.parseDate("8am", t): the notification time of the day of t.
formattedTime(t) == (t \div MsPerDay) * MsPerDay + NotificationHour * 60 * MsPerMinute

preTime(t) == subMinutes(formattedTime(t), 10)

\* The first gate with the comparison turned round.
NotYetInverted(t, next) == next # 0 /\ t > next

\* if (nextScheduledTime && now < new Date(nextScheduledTime))
NotYet(t, next) == next # 0 /\ t < next

\* if (lastNotifyTime && differenceInMinutes(now, ..) < minimumInterval)
TooSoon(t, last) == last # 0 /\ differenceInMinutes(t, last) < minimumInterval

\* The times of day, in minutes, at which a tick may come, each also one
\* millisecond later.
TickMinutes == {360, 420, 470, 480, 600, 1439}

Times ==
  { d * MsPerDay + m * MsPerMinute + o :
      d \in 0..(MaxDays - 1), m \in TickMinutes, o \in {0, 1} }

InitSched ==
  /\ IdleSched
  /\ IdleNotion
  /\ IdleConvert
  /\ IdlePure

\* One run of Command at time t.  regenerate is the launch context's flag,
\* noItems is todayItems being empty.  In the publish branch exists, auto
\* and found are what the digest store answers to checkTodaysDigestExist(),
\* to checkTodaysDigestExist("auto") and to getTodaysDigest(); genOk is
\* bizGenDigest resolving and notionOk updateMorningBriefDb resolving.
\* handleGenDigest catches what bizGenDigest and its callback throw and
\* handleSuccess catches what updateMorningBriefDb throws, so the publish
\* branch always goes on to the two saves.
Command(t, regenerate, noItems) ==
  /\ t >= now
  /\ now' = t
  /\ IF noItems
     THEN /\ tick' = [branch |-> "noItems", generated |-> FALSE, published |-> FALSE]
          /\ UNCHANGED <<lastNotifyTime, nextScheduledTime, attempt>>
     ELSE IF NotYet(t, nextScheduledTime)
     THEN /\ tick' = [branch |-> "notYet", generated |-> FALSE, published |-> FALSE]
          /\ UNCHANGED <<lastNotifyTime, nextScheduledTime, attempt>>
     ELSE IF TooSoon(t, lastNotifyTime)
     THEN /\ nextScheduledTime' = addMinutes(lastNotifyTime, minimumInterval)
          /\ tick' = [branch |-> "tooSoon", generated |-> FALSE, published |-> FALSE]
          /\ UNCHANGED <<lastNotifyTime, attempt>>
     ELSE IF isAfter(t, preTime(t))
     THEN \E exists, auto, found, genOk, notionOk \in BOOLEAN :
            LET generate == ~exists \/ regenerate
                publish == \/ generate /\ genOk
                           \/ ~generate /\ auto /\ found
            IN  /\ tick' = [branch |-> "publish", generated |-> generate,
                            published |-> publish]
                /\ lastNotifyTime' = t
                /\ nextScheduledTime' = addDays(formattedTime(t), 1)
                /\ attempt' = [at |-> t, due |-> addDays(formattedTime(t), 1),
                               failed |-> \/ generate /\ ~genOk
                                          \/ publish /\ ~notionOk]
     ELSE LET nextCheck == IF preTime(t) >= addMinutes(t, minimumInterval)
                           THEN preTime(t) ELSE addMinutes(t, minimumInterval)
          IN  /\ nextScheduledTime' = IF isAfter(nextCheck, formattedTime(t))
                                      THEN formattedTime(t) ELSE nextCheck
              /\ tick' = [branch |-> "early", generated |-> FALSE, published |-> FALSE]
              /\ UNCHANGED <<lastNotifyTime, attempt>>
  /\ UNCHANGED <<notionVars, convertVars, pureVars>>

NextSched ==
  \E t \in Times, regenerate, noItems \in BOOLEAN : Command(t, regenerate, noItems)

SpecSched == InitSched /\ [][NextSched]_vars

\* C19: a tick that comes while a nextScheduledTime is stored and the time
\* is strictly before it generates no digest, calls Notion not at all and
\* leaves lastNotifyTime and nextScheduledTime as they were.
C19_EarlyTickIsNoOp ==
  [][(nextScheduledTime # 0 /\ now' < nextScheduledTime) =>
       /\ ~tick'.generated
       /\ ~tick'.published
       /\ lastNotifyTime' = lastNotifyTime
       /\ nextScheduledTime' = nextScheduledTime]_vars

\* After a tick published, a later tick with items for the day and the
\* regenerate flag free to be set came before the next scheduled time and
\* returned at the first gate.
C19_Witness ==
  /\ tick.branch = "notYet"
  /\ attempt.at # 0
  /\ now > attempt.at
  /\ now < nextScheduledTime
  /\ lastNotifyTime = attempt.at

\* The calendar day of a time.
DayOf(t) == t \div MsPerDay

\* C20: a tick that passes both gates after the notification time minus ten
\* minutes, with items for the day, takes the publish branch and, whether
\* generation and the Notion call succeed or fail, stores the tick's time as
\* lastNotifyTime and the day's notification time plus one day as
\* nextScheduledTime; lastNotifyTime stays until the next such tick and
\* nextScheduledTime at least until its time has come, and every later tick
\* that generates, publishes or takes the publish branch comes at or after
\* that time and on a later day.
C20_OneAttemptPerDay ==
  /\ [][(/\ tick'.branch # "noItems"
         /\ tick' # tick \/ now' # now
         /\ nextScheduledTime = 0 \/ now' >= nextScheduledTime
         /\ lastNotifyTime = 0
              \/ differenceInMinutes(now', lastNotifyTime) >= minimumInterval
         /\ now' > formattedTime(now') - 10 * MsPerMinute) =>
           /\ tick'.branch = "publish"
           /\ lastNotifyTime' = now'
           /\ nextScheduledTime' = formattedTime(now') + MsPerDay
           /\ attempt'.at = now']_vars
  /\ [](attempt.at # 0 =>
          /\ lastNotifyTime = attempt.at
          /\ attempt.due = formattedTime(attempt.at) + MsPerDay
          /\ now < attempt.due => nextScheduledTime = attempt.due)
  /\ [][(/\ attempt.at # 0
         /\ tick' # tick \/ now' # now
         /\ tick'.generated \/ tick'.published \/ tick'.branch = "publish") =>
           /\ now' >= attempt.due
           /\ DayOf(now') > DayOf(attempt.at)]_vars

\* An attempt failed and a later tick of the same day, with items for the
\* day, returned at the first gate.
C20_Witness ==
  /\ attempt.failed
  /\ tick.branch = "notYet"
  /\ now > attempt.at
  /\ DayOf(now) = DayOf(attempt.at)
  /\ nextScheduledTime = formattedTime(attempt.at) + MsPerDay

====
